---- MODULE Spec2Model ----
(***************************************************************************)
(* The V2 HTTP consumer facade of pact-go (consumer/http_v2.go): the mock   *)
(* provider, the interactions it registers on its mock server, the typed    *)
(* builder handles of one interaction, and the test run that ExecuteTest    *)
(* drives against the mock transport.                                       *)
(***************************************************************************)
EXTENDS Integers, Sequences, FiniteSets, TLC

VARIABLES
    provider,       \* the *V2HTTPMockProvider NewV2Pact returned (or nil) and its error
    interactions,   \* the Interaction objects the facade created, by identity
    mockserver,     \* provider.mockserver: the interactions registered on it, in order
    handles,        \* per interaction: the builder handles the caller has been given
    last,           \* the most recent facade call and how it ended
    calls,          \* number of facade calls made so far
    run             \* the test run of httpMockProvider.ExecuteTest

vars == <<provider, interactions, mockserver, handles, last, calls, run>>

----------------------------------------------------------------------------
(* Bounds of the model *)

MaxCalls == 5

----------------------------------------------------------------------------
(* Values *)

V2 == "V2"
NoError == "nil"
UnsupportedForSpecVersionError == "UnsupportedForSpecVersionError"
EmptyContractError == "EmptyContractError"
TransportStartError == "TransportStartError"
PersistenceError == "PersistenceError"
ExerciseError == "ExerciseError"
VerificationError == "VerificationError"

Descriptions == {"", "A request to do a foo"}
StateNames == {"User foo exists", "User bar exists"}
Methods == {"POST"}
Paths == {"/foobar"}
Statuses == {200}
HeaderKeys == {"Content-Type"}
QueryKeys == {"baz"}

\* matchers.String(path): the plain string as a matcher
String(s) == [matcher |-> "String", value |-> s, pattern |-> ""]
\* a regex path matcher, as in Regex("/foobar", `\/foo.*`)
Regex(s, p) == [matcher |-> "Regex", value |-> s, pattern |-> p]
NoMatcher == [matcher |-> "", value |-> "", pattern |-> ""]
PathMatchers == {String(p) : p \in Paths} \cup {Regex(p, "\\/foo.*") : p \in Paths}

\* Rule kinds a body may carry; the V3-only ones are not legal on a V2 interaction.
V3OnlyRules == {"Equality", "FromProviderState", "DateTimeGenerated"}
\* The bodies handed to JSONBody (interface{}): the set of rule kinds the value holds.
JSONBodies == {
    [rules |-> {}],
    [rules |-> {"Like"}],
    [rules |-> {"Like", "FromProviderState"}],
    [rules |-> {"DateTimeGenerated"}] }
\* The typed records handed to BodyMatch: the metadata their field tags carry
\* (`rules`) and the generators the tags declare.
TypedRecords == {
    [rules |-> {"example"}, generators |-> {}],
    [rules |-> {"example", "format"}, generators |-> {"datetime"}] }

NoBody == [contentType |-> "", kind |-> "none", rules |-> {}]

----------------------------------------------------------------------------
(* The native interaction of the mock server and its setters *)

\* mockserver.NewInteraction(description): a fresh interaction of the mock server
NewInteraction(description) ==
    [description |-> description,
     states      |-> <<>>,
     request     |-> [method |-> "", path |-> NoMatcher, query |-> {},
                      headers |-> {}, body |-> NoBody],
     response    |-> [status |-> 0, headers |-> {}, body |-> NoBody]]

\* a plain string state has an empty parameter mapping
NativeGiven(n, state) ==
    [n EXCEPT !.states = Append(@, [name |-> state, params |-> <<>>])]

NativeUponReceiving(n, description) == [n EXCEPT !.description = description]

NativeWithRequest(n, method, path) ==
    [n EXCEPT !.request.method = method, !.request.path = path]

NativeWithStatus(n, status) == [n EXCEPT !.response.status = status]

\* validateMatchers(version, body): the body's rules must be legal for the version
validateMatchers(version, body) ==
    IF version = V2 /\ body.rules \cap V3OnlyRules # {}
    THEN UnsupportedForSpecVersionError
    ELSE NoError

\* matchers.MatchV2(record): the matcher tree the record's field tags declare
MatchV2(record) ==
    [rules |-> {"Like"} \cup
               (IF "datetime" \in record.generators THEN {"DateTimeGenerated"} ELSE {})]

JSONBodyOf(body) ==
    [contentType |-> "application/json", kind |-> "json", rules |-> body.rules]

----------------------------------------------------------------------------
(* The request builder: V2InteractionWithRequestBuilder.  Each method takes *)
(* the consumer Interaction `it` ({specificationVersion, interaction}) and  *)
(* yields the interaction after the call and the error it panicked with.    *)

Done(it) == [it |-> it, err |-> NoError]
Panic(it, err) == [it |-> it, err |-> err]

RequestBuilder_Query(it, key) ==
    Done([it EXCEPT !.interaction.request.query = @ \cup {key}])

RequestBuilder_Header(it, key) ==
    Done([it EXCEPT !.interaction.request.headers = @ \cup {key}])

RequestBuilder_Headers(it, keys) ==
    Done([it EXCEPT !.interaction.request.headers = @ \cup keys])

\* Mutant: the body is written before the matchers are validated
RequestBuilder_JSONBody_WritesFirst(it, body) ==
    LET err == validateMatchers(it.specificationVersion, body)
        written == [it EXCEPT !.interaction.request.body = JSONBodyOf(body)] IN
    IF err # NoError THEN Panic(written, err) ELSE Done(written)

RequestBuilder_JSONBody(it, body) ==
    LET err == validateMatchers(it.specificationVersion, body) IN
    IF err # NoError
    THEN Panic(it, err)
    ELSE Done([it EXCEPT !.interaction.request.body = JSONBodyOf(body)])

RequestBuilder_BinaryBody(it, bytes) ==
    Done([it EXCEPT !.interaction.request.body =
            [contentType |-> "application/octet-stream", kind |-> "binary", rules |-> {}]])

RequestBuilder_MultipartBody(it, contentType) ==
    Done([it EXCEPT !.interaction.request.body =
            [contentType |-> contentType, kind |-> "multipart", rules |-> {}]])

RequestBuilder_Body(it, contentType) ==
    Done([it EXCEPT !.interaction.request.body =
            [contentType |-> contentType, kind |-> "raw", rules |-> {}]])

RequestBuilder_BodyMatch(it, record) ==
    Done([it EXCEPT !.interaction.request.body = JSONBodyOf(MatchV2(record))])

\* The calls a V2RequestBuilder function makes on the builder it is handed.
RequestBuilderCalls ==
    {[m |-> "Query", arg |-> k] : k \in QueryKeys}
    \cup {[m |-> "Header", arg |-> k] : k \in HeaderKeys}
    \cup {[m |-> "Headers", arg |-> HeaderKeys]}
    \cup {[m |-> "JSONBody", arg |-> b] : b \in JSONBodies}
    \cup {[m |-> "BinaryBody", arg |-> "bytes"]}
    \cup {[m |-> "MultipartBody", arg |-> "multipart/form-data"]}
    \cup {[m |-> "Body", arg |-> "text/plain"]}
    \cup {[m |-> "BodyMatch", arg |-> r] : r \in TypedRecords}

V2RequestBuilder(it, call) ==
    CASE call.m = "Query"         -> RequestBuilder_Query(it, call.arg)
      [] call.m = "Header"        -> RequestBuilder_Header(it, call.arg)
      [] call.m = "Headers"       -> RequestBuilder_Headers(it, call.arg)
      [] call.m = "JSONBody"      -> RequestBuilder_JSONBody(it, call.arg)
      [] call.m = "BinaryBody"    -> RequestBuilder_BinaryBody(it, call.arg)
      [] call.m = "MultipartBody" -> RequestBuilder_MultipartBody(it, call.arg)
      [] call.m = "Body"          -> RequestBuilder_Body(it, call.arg)
      [] call.m = "BodyMatch"     -> RequestBuilder_BodyMatch(it, call.arg)

----------------------------------------------------------------------------
(* The response builder: V2InteractionWithResponseBuilder *)

\* Mutant: the response builder's Header writes the header of the request
ResponseBuilder_Header_OnRequest(it, key) ==
    Done([it EXCEPT !.interaction.request.headers = @ \cup {key}])

ResponseBuilder_Header(it, key) ==
    Done([it EXCEPT !.interaction.response.headers = @ \cup {key}])

ResponseBuilder_Headers(it, keys) ==
    Done([it EXCEPT !.interaction.response.headers = @ \cup keys])

ResponseBuilder_JSONBody(it, body) ==
    LET err == validateMatchers(it.specificationVersion, body) IN
    IF err # NoError
    THEN Panic(it, err)
    ELSE Done([it EXCEPT !.interaction.response.body = JSONBodyOf(body)])

ResponseBuilder_BinaryBody(it, bytes) ==
    Done([it EXCEPT !.interaction.response.body =
            [contentType |-> "application/octet-stream", kind |-> "binary", rules |-> {}]])

ResponseBuilder_MultipartBody(it, contentType) ==
    Done([it EXCEPT !.interaction.response.body =
            [contentType |-> contentType, kind |-> "multipart", rules |-> {}]])

ResponseBuilder_Body(it, contentType) ==
    Done([it EXCEPT !.interaction.response.body =
            [contentType |-> contentType, kind |-> "raw", rules |-> {}]])

ResponseBuilder_BodyMatch(it, record) ==
    Done([it EXCEPT !.interaction.response.body = JSONBodyOf(MatchV2(record))])

ResponseBuilderCalls ==
    {[m |-> "Header", arg |-> k] : k \in HeaderKeys}
    \cup {[m |-> "Headers", arg |-> HeaderKeys]}
    \cup {[m |-> "JSONBody", arg |-> b] : b \in JSONBodies}
    \cup {[m |-> "BinaryBody", arg |-> "bytes"]}
    \cup {[m |-> "MultipartBody", arg |-> "multipart/form-data"]}
    \cup {[m |-> "Body", arg |-> "text/plain"]}
    \cup {[m |-> "BodyMatch", arg |-> r] : r \in TypedRecords}

V2ResponseBuilder(it, call) ==
    CASE call.m = "Header"        -> ResponseBuilder_Header(it, call.arg)
      [] call.m = "Headers"       -> ResponseBuilder_Headers(it, call.arg)
      [] call.m = "JSONBody"      -> ResponseBuilder_JSONBody(it, call.arg)
      [] call.m = "BinaryBody"    -> ResponseBuilder_BinaryBody(it, call.arg)
      [] call.m = "MultipartBody" -> ResponseBuilder_MultipartBody(it, call.arg)
      [] call.m = "Body"          -> ResponseBuilder_Body(it, call.arg)
      [] call.m = "BodyMatch"     -> ResponseBuilder_BodyMatch(it, call.arg)

----------------------------------------------------------------------------
(* Running the builders of one step, in argument order.  A panic in a       *)
(* builder unwinds out of the step: the later builders do not run.  The     *)
(* outcome records the interaction as it was when the panicking call began. *)

NoInteraction == [none |-> TRUE]

RECURSIVE RunRequestBuilders(_, _)
RunRequestBuilders(it, builders) ==
    IF builders = <<>>
    THEN [it |-> it, err |-> NoError, atPanic |-> NoInteraction]
    ELSE LET r == V2RequestBuilder(it, Head(builders)) IN
         IF r.err # NoError
         THEN [it |-> r.it, err |-> r.err, atPanic |-> it]
         ELSE RunRequestBuilders(r.it, Tail(builders))

RECURSIVE RunResponseBuilders(_, _)
RunResponseBuilders(it, builders) ==
    IF builders = <<>>
    THEN [it |-> it, err |-> NoError, atPanic |-> NoInteraction]
    ELSE LET r == V2ResponseBuilder(it, Head(builders)) IN
         IF r.err # NoError
         THEN [it |-> r.it, err |-> r.err, atPanic |-> it]
         ELSE RunResponseBuilders(r.it, Tail(builders))

----------------------------------------------------------------------------
(* The builder handles.  A handle is {interaction, provider}; its Go type   *)
(* decides which steps can be called on it.  The caller may keep every      *)
(* handle it was given; `latest` is the one the last step returned, and     *)
(* `chained` says that every step so far was called on the handle the step  *)
(* before it returned.                                                      *)

Unconfigured == "UnconfiguredV2Interaction"
WithCompleteRequestHandle == "V2InteractionWithCompleteRequest"
WithRequestHandle == "V2InteractionWithRequest"
WithResponseHandle == "V2InteractionWithResponse"
NoHandle == "none"

\* The caller's code runs before a test run, inside the exercise function, and after.
CallerRuns == run.phase \in {"Configured", "Listening", "TornDown"}

CanCall(i, handle) ==
    /\ provider.ok
    /\ CallerRuns
    /\ calls < MaxCalls
    /\ i \in 1..Len(interactions)
    /\ handle \in handles[i].held

\* The steps that take builders, and the arguments such a step was called with.
BuilderSteps == {"WithRequest", "WillRespondWith"}
StepArgs(method, path, status, builders) ==
    [method |-> method, path |-> path, status |-> status, builders |-> builders]
NoStepArgs == StepArgs("", NoMatcher, 0, <<>>)

\* A step called on `via` ends: with `ret` returned, or with a panic and no handle.
Returns(i, op, arg, via, ret, outcome) ==
    /\ interactions' = [interactions EXCEPT ![i] = outcome.it]
    /\ handles' = [handles EXCEPT ![i] =
          [held     |-> IF outcome.err = NoError THEN @.held \cup {ret} ELSE @.held,
           latest   |-> IF outcome.err = NoError THEN ret ELSE NoHandle,
           chained  |-> @.chained /\ @.latest = via,
           lastStep |-> op]]
    /\ last' = [op |-> op, i |-> i,
                arg |-> IF op \in BuilderSteps THEN "" ELSE arg,
                step |-> IF op \in BuilderSteps THEN arg ELSE NoStepArgs,
                err |-> outcome.err, atPanic |-> outcome.atPanic]
    /\ calls' = calls + 1
    /\ UNCHANGED <<provider, mockserver, run>>

Plain(it) == [it |-> it, err |-> NoError, atPanic |-> NoInteraction]

----------------------------------------------------------------------------
(* The facade *)

\* Mutant: the provider is returned together with the error of configure
NewV2Pact_ProviderWithError(configureOk) ==
    [ok |-> TRUE, specificationVersion |-> V2,
     err |-> IF configureOk THEN NoError ELSE "ConfigureError"]

\* NewV2Pact(config): nil and the error when configure fails
NewV2Pact(configureOk) ==
    IF configureOk
    THEN [ok |-> TRUE, specificationVersion |-> V2, err |-> NoError]
    ELSE [ok |-> FALSE, specificationVersion |-> "", err |-> "ConfigureError"]

\* Mutant: the interaction is created without being registered on the mock server
AddInteraction_NotRegistered ==
    /\ provider.ok
    /\ CallerRuns
    /\ calls < MaxCalls
    /\ interactions' = Append(interactions,
          [specificationVersion |-> V2, interaction |-> NewInteraction("")])
    /\ handles' = Append(handles,
          [held |-> {Unconfigured}, latest |-> Unconfigured, chained |-> TRUE,
           lastStep |-> "AddInteraction"])
    /\ last' = [op |-> "AddInteraction", i |-> Len(interactions) + 1, arg |-> "",
                step |-> NoStepArgs, err |-> NoError, atPanic |-> NoInteraction]
    /\ calls' = calls + 1
    /\ UNCHANGED <<provider, mockserver, run>>

\* V2HTTPMockProvider.AddInteraction
AddInteraction ==
    /\ provider.ok
    /\ CallerRuns
    /\ calls < MaxCalls
    /\ interactions' = Append(interactions,
          [specificationVersion |-> V2, interaction |-> NewInteraction("")])
    /\ mockserver' = Append(mockserver, Len(interactions) + 1)
    /\ handles' = Append(handles,
          [held |-> {Unconfigured}, latest |-> Unconfigured, chained |-> TRUE,
           lastStep |-> "AddInteraction"])
    /\ last' = [op |-> "AddInteraction", i |-> Len(interactions) + 1, arg |-> "",
                step |-> NoStepArgs, err |-> NoError, atPanic |-> NoInteraction]
    /\ calls' = calls + 1
    /\ UNCHANGED <<provider, run>>

\* Mutant: the new state is put in front of the states given before
Given_Prepends(i, state) ==
    /\ CanCall(i, Unconfigured)
    /\ Returns(i, "Given", state, Unconfigured, Unconfigured,
               Plain([interactions[i] EXCEPT !.interaction.states =
                        <<[name |-> state, params |-> <<>>]>> \o @]))

\* UnconfiguredV2Interaction.Given
Given(i, state) ==
    /\ CanCall(i, Unconfigured)
    /\ Returns(i, "Given", state, Unconfigured, Unconfigured,
               Plain([interactions[i] EXCEPT !.interaction = NativeGiven(@, state)]))

\* UnconfiguredV2Interaction.UponReceiving
UponReceiving(i, description) ==
    /\ CanCall(i, Unconfigured)
    /\ Returns(i, "UponReceiving", description, Unconfigured, Unconfigured,
               Plain([interactions[i] EXCEPT
                        !.interaction = NativeUponReceiving(@, description)]))

CompleteRequests ==
    {[method |-> "POST", path |-> String("/foobar"), query |-> {"baz"},
      headers |-> {"Content-Type"}, body |-> JSONBodyOf([rules |-> {"Like"}])]}

CompleteResponses ==
    {[status |-> 200, headers |-> {"Content-Type"}, body |-> JSONBodyOf([rules |-> {"Like"}])]}

\* Mutant: the complete request is written to the provider's first interaction
WithCompleteRequest_OnFirstInteraction(i, request) ==
    /\ CanCall(i, Unconfigured)
    /\ interactions' = [interactions EXCEPT ![1].interaction.request = request]
    /\ handles' = [handles EXCEPT ![i] =
          [held     |-> @.held \cup {WithCompleteRequestHandle},
           latest   |-> WithCompleteRequestHandle,
           chained  |-> @.chained /\ @.latest = Unconfigured,
           lastStep |-> "WithCompleteRequest"]]
    /\ last' = [op |-> "WithCompleteRequest", i |-> i, arg |-> "", step |-> NoStepArgs,
                err |-> NoError, atPanic |-> NoInteraction]
    /\ calls' = calls + 1
    /\ UNCHANGED <<provider, mockserver, run>>

\* UnconfiguredV2Interaction.WithCompleteRequest
WithCompleteRequest(i, request) ==
    /\ CanCall(i, Unconfigured)
    /\ Returns(i, "WithCompleteRequest", "", Unconfigured, WithCompleteRequestHandle,
               Plain([interactions[i] EXCEPT !.interaction.request = request]))

\* V2InteractionWithCompleteRequest.WithCompleteResponse
WithCompleteResponse(i, response) ==
    /\ CanCall(i, WithCompleteRequestHandle)
    /\ Returns(i, "WithCompleteResponse", "", WithCompleteRequestHandle, WithResponseHandle,
               Plain([interactions[i] EXCEPT !.interaction.response = response]))

\* Mutant: the step returns the unconfigured handle it was called on
WithRequestPathMatcher_ReturnsUnconfigured(i, method, path, builders) ==
    /\ CanCall(i, Unconfigured)
    /\ Returns(i, "WithRequest",
               StepArgs(method, path, 0, builders),
               Unconfigured, Unconfigured,
               RunRequestBuilders(
                   [interactions[i] EXCEPT
                      !.interaction = NativeWithRequest(@, method, path)],
                   builders))

\* UnconfiguredV2Interaction.WithRequestPathMatcher
WithRequestPathMatcher(i, method, path, builders) ==
    /\ CanCall(i, Unconfigured)
    /\ Returns(i, "WithRequest",
               StepArgs(method, path, 0, builders),
               Unconfigured, WithRequestHandle,
               RunRequestBuilders(
                   [interactions[i] EXCEPT
                      !.interaction = NativeWithRequest(@, method, path)],
                   builders))

\* Mutant: the plain path is handed on as a pattern to match the path against
WithRequest_PathAsPattern(i, method, path, builders) ==
    WithRequestPathMatcher(i, method, Regex(path, path), builders)

\* UnconfiguredV2Interaction.WithRequest
WithRequest(i, method, path, builders) ==
    WithRequestPathMatcher(i, method, String(path), builders)

\* Mutant: the response builders are applied from the last argument to the first
WillRespondWith_BuildersReversed(i, status, builders) ==
    /\ CanCall(i, WithRequestHandle)
    /\ Returns(i, "WillRespondWith", StepArgs("", NoMatcher, status, builders),
               WithRequestHandle, WithResponseHandle,
               RunResponseBuilders(
                   [interactions[i] EXCEPT !.interaction = NativeWithStatus(@, status)],
                   [k \in 1..Len(builders) |-> builders[Len(builders) + 1 - k]]))

\* V2InteractionWithRequest.WillRespondWith
WillRespondWith(i, status, builders) ==
    /\ CanCall(i, WithRequestHandle)
    /\ Returns(i, "WillRespondWith", StepArgs("", NoMatcher, status, builders),
               WithRequestHandle, WithResponseHandle,
               RunResponseBuilders(
                   [interactions[i] EXCEPT !.interaction = NativeWithStatus(@, status)],
                   builders))

----------------------------------------------------------------------------
(* The test run: httpMockProvider.ExecuteTest.                              *)
(* Configured -> Loaded -> Listening -> Exercised -> {Verified | Failed}    *)
(* -> TornDown.  The result is the set of errors aggregated into the single *)
(* error ExecuteTest returns; the empty set is nil.                         *)

NoRun ==
    [phase |-> "Configured", runs |-> 0, via |-> 0, loaded |-> <<>>, listener |-> FALSE,
     invoked |-> 0, exerciseErr |-> NoError, mismatches |-> {}, persisted |-> "no",
     result |-> {}, returned |-> {}]

\* the interactions registered on the mock server, in insertion order
Registered == [k \in 1..Len(mockserver) |-> interactions[mockserver[k]].interaction]

\* Mutant: an empty aggregate is handed to the transport like any other
httpMockProvider_ExecuteTest_NoEmptyCheck(via, startOk) ==
    /\ provider.ok
    /\ run.phase \in {"Configured", "TornDown"}
    /\ calls < MaxCalls
    /\ run' = IF ~startOk
              THEN [NoRun EXCEPT !.phase = "Failed", !.runs = run.runs, !.via = via,
                                 !.loaded = Registered,
                                 !.result = {TransportStartError}]
              ELSE [NoRun EXCEPT !.phase = "Listening", !.runs = run.runs, !.via = via,
                                 !.loaded = Registered,
                                 !.listener = TRUE, !.invoked = 1]
    /\ last' = [op |-> "ExecuteTest", i |-> via, arg |-> "", step |-> NoStepArgs,
                err |-> NoError, atPanic |-> NoInteraction]
    /\ calls' = calls + 1
    /\ UNCHANGED <<provider, interactions, mockserver>>

\* Configured -> Loaded -> Listening: validate, start the transport with the
\* interactions of the mock server, and invoke the exercise function.
httpMockProvider_ExecuteTest(via, startOk) ==
    /\ provider.ok
    /\ run.phase \in {"Configured", "TornDown"}
    /\ calls < MaxCalls
    /\ run' = IF Len(mockserver) = 0
              THEN [NoRun EXCEPT !.phase = "Failed", !.runs = run.runs, !.via = via,
                                 !.result = {EmptyContractError}]
              ELSE IF ~startOk
              THEN [NoRun EXCEPT !.phase = "Failed", !.runs = run.runs, !.via = via,
                                 !.loaded = Registered,
                                 !.result = {TransportStartError}]
              ELSE [NoRun EXCEPT !.phase = "Listening", !.runs = run.runs, !.via = via,
                                 !.loaded = Registered,
                                 !.listener = TRUE, !.invoked = 1]
    /\ last' = [op |-> "ExecuteTest", i |-> via, arg |-> "", step |-> NoStepArgs,
                err |-> NoError, atPanic |-> NoInteraction]
    /\ calls' = calls + 1
    /\ UNCHANGED <<provider, interactions, mockserver>>

\* ExecuteTest called on the provider itself (the method is promoted from the
\* embedded *httpMockProvider)
ProviderExecuteTest(startOk) ==
    /\ httpMockProvider_ExecuteTest(0, startOk)
    /\ UNCHANGED handles

\* Mutant: ExecuteTest on a handle runs the handle's own interaction only
ExecuteTest_OwnInteractionOnly(i, startOk) ==
    /\ i \in 1..Len(interactions)
    /\ WithResponseHandle \in handles[i].held
    /\ provider.ok
    /\ run.phase \in {"Configured", "TornDown"}
    /\ calls < MaxCalls
    /\ run' = IF ~startOk
              THEN [NoRun EXCEPT !.phase = "Failed", !.runs = run.runs, !.via = i,
                                 !.loaded = <<interactions[i].interaction>>,
                                 !.result = {TransportStartError}]
              ELSE [NoRun EXCEPT !.phase = "Listening", !.runs = run.runs, !.via = i,
                                 !.loaded = <<interactions[i].interaction>>,
                                 !.listener = TRUE, !.invoked = 1]
    /\ last' = [op |-> "ExecuteTest", i |-> i, arg |-> "", step |-> NoStepArgs,
                err |-> NoError, atPanic |-> NoInteraction]
    /\ calls' = calls + 1
    /\ handles' = [handles EXCEPT ![i] =
          [@ EXCEPT !.latest = NoHandle,
                    !.chained = @ /\ handles[i].latest = WithResponseHandle,
                    !.lastStep = "ExecuteTest"]]
    /\ UNCHANGED <<provider, interactions, mockserver>>

\* V2InteractionWithResponse.ExecuteTest
ExecuteTest(i, startOk) ==
    /\ i \in 1..Len(interactions)
    /\ WithResponseHandle \in handles[i].held
    /\ httpMockProvider_ExecuteTest(i, startOk)
    /\ handles' = [handles EXCEPT ![i] =
          [@ EXCEPT !.latest = NoHandle,
                    !.chained = @ /\ handles[i].latest = WithResponseHandle,
                    !.lastStep = "ExecuteTest"]]

\* Mutant: a failed exercise function is invoked a second time
ExerciseReturns_Retries(err) ==
    /\ run.phase = "Listening"
    /\ run' = IF err # NoError /\ run.invoked = 1
              THEN [run EXCEPT !.invoked = 2]
              ELSE [run EXCEPT !.phase = "Exercised", !.exerciseErr = err]
    /\ UNCHANGED <<provider, interactions, mockserver, handles, last, calls>>

\* Listening -> Exercised: the exercise function returns; its error is captured
ExerciseReturns(err) ==
    /\ run.phase = "Listening"
    /\ run' = [run EXCEPT !.phase = "Exercised", !.exerciseErr = err]
    /\ UNCHANGED <<provider, interactions, mockserver, handles, last, calls>>

\* Exercised -> Verified | Failed: two-sided coverage from the transport, then
\* persistence of the contract when the run succeeded
Verify(unmet, unexpected, persistOk) ==
    /\ run.phase = "Exercised"
    /\ LET mismatches == (IF unmet THEN {"unmet expectation"} ELSE {})
                         \cup (IF unexpected THEN {"unexpected request"} ELSE {})
           failures == (IF run.exerciseErr # NoError THEN {ExerciseError} ELSE {})
                       \cup (IF mismatches # {} THEN {VerificationError} ELSE {})
       IN run' = IF failures # {}
                 THEN [run EXCEPT !.phase = "Failed", !.mismatches = mismatches,
                                  !.result = failures]
                 ELSE [run EXCEPT !.phase = "Verified", !.mismatches = mismatches,
                                  !.persisted = IF persistOk THEN "yes" ELSE "failed",
                                  !.result = IF persistOk THEN {} ELSE {PersistenceError}]
    /\ UNCHANGED <<provider, interactions, mockserver, handles, last, calls>>

\* Mutant: ExecuteTest on a handle drops the error of the provider's ExecuteTest
Returned_DropsError(via, result) == IF via # 0 THEN {} ELSE result

\* what the entry point called by the test returns to it
Returned(via, result) == result

\* Mutant: the listener is stopped only after a successful verification
Teardown_OnlyOnSuccess ==
    /\ run.phase = "Verified"
    /\ run' = [run EXCEPT !.phase = "TornDown", !.listener = FALSE,
                          !.runs = @ + 1, !.returned = Returned(run.via, run.result)]
    /\ UNCHANGED <<provider, interactions, mockserver, handles, last, calls>>

\* Teardown: stop the listener, release its resources, return the result
Teardown ==
    /\ run.phase \in {"Verified", "Failed"}
    /\ run' = [run EXCEPT !.phase = "TornDown", !.listener = FALSE,
                          !.runs = @ + 1, !.returned = Returned(run.via, run.result)]
    /\ UNCHANGED <<provider, interactions, mockserver, handles, last, calls>>

----------------------------------------------------------------------------
(* The specification *)

Init ==
    /\ \E configureOk \in BOOLEAN : provider = NewV2Pact(configureOk)
    /\ interactions = <<>>
    /\ mockserver = <<>>
    /\ handles = <<>>
    /\ last = [op |-> "NewV2Pact", i |-> 0, arg |-> "", step |-> NoStepArgs,
               err |-> provider.err, atPanic |-> NoInteraction]
    /\ calls = 0
    /\ run = NoRun

\* The builder lists the facade steps are given in the flow specification: no
\* builder, or one builder that sets a body (a legal JSON body, a JSON body with
\* a V3-only rule, a typed record with a generator), or a legal JSON body followed
\* by one with a V3-only rule, or two builders that both write the body.
FlowBodyCalls ==
    {[m |-> "JSONBody", arg |-> [rules |-> {"Like"}]],
     [m |-> "JSONBody", arg |-> [rules |-> {"Like", "FromProviderState"}]],
     [m |-> "BodyMatch", arg |-> [rules |-> {"example", "format"},
                                  generators |-> {"datetime"}]]}

FlowRequestBuilders ==
    {<<>>} \cup {<<c>> : c \in FlowBodyCalls \cap RequestBuilderCalls}
    \cup {<<[m |-> "JSONBody", arg |-> [rules |-> {"Like"}]],
             [m |-> "JSONBody", arg |-> [rules |-> {"Like", "FromProviderState"}]]>>,
           <<[m |-> "JSONBody", arg |-> [rules |-> {"Like"}]],
             [m |-> "Body", arg |-> "text/plain"]>>}

FlowResponseBuilders ==
    {<<>>} \cup {<<c>> : c \in FlowBodyCalls \cap ResponseBuilderCalls}
    \cup {<<[m |-> "Body", arg |-> "text/plain"],
             [m |-> "JSONBody", arg |-> [rules |-> {"Like"}]]>>}

Next ==
    \/ AddInteraction
    \/ \E i \in 1..Len(interactions), state \in StateNames : Given(i, state)
    \/ \E i \in 1..Len(interactions), d \in Descriptions : UponReceiving(i, d)
    \/ \E i \in 1..Len(interactions), r \in CompleteRequests : WithCompleteRequest(i, r)
    \/ \E i \in 1..Len(interactions), r \in CompleteResponses : WithCompleteResponse(i, r)
    \/ \E i \in 1..Len(interactions), m \in Methods, p \in Paths,
          bs \in FlowRequestBuilders : WithRequest(i, m, p, bs)
    \/ \E i \in 1..Len(interactions), m \in Methods, p \in PathMatchers,
          bs \in FlowRequestBuilders : WithRequestPathMatcher(i, m, p, bs)
    \/ \E i \in 1..Len(interactions), s \in Statuses,
          bs \in FlowResponseBuilders : WillRespondWith(i, s, bs)
    \/ \E startOk \in BOOLEAN : ProviderExecuteTest(startOk)
    \/ \E i \in 1..Len(interactions), startOk \in BOOLEAN : ExecuteTest(i, startOk)
    \/ \E err \in {NoError, ExerciseError} : ExerciseReturns(err)
    \/ \E unmet \in BOOLEAN, unexpected \in BOOLEAN, persistOk \in BOOLEAN :
          Verify(unmet, unexpected, persistOk)
    \/ Teardown

Spec == Init /\ [][Next]_vars

\* The steps of a run are the sequential code of one call of ExecuteTest: once
\* the call is made each step follows the one before it.  The exercise function
\* is called synchronously and is taken to return (there is no cancellation: a
\* hung exercise function hangs the run).  The caller's own facade calls are
\* under no obligation to happen.
FairSpec ==
    /\ Spec
    /\ WF_vars(\E err \in {NoError, ExerciseError} : ExerciseReturns(err))
    /\ WF_vars(\E unmet \in BOOLEAN, unexpected \in BOOLEAN, persistOk \in BOOLEAN :
                  Verify(unmet, unexpected, persistOk))
    /\ WF_vars(Teardown)

----------------------------------------------------------------------------
(* Properties *)

\* The step of this transition is a builder step on the existing interaction i.
StepOn(i) ==
    /\ calls' = calls + 1
    /\ i \in 1..Len(interactions)
    /\ last'.i = i

StepRank(op) ==
    CASE op = "AddInteraction" -> 0
      [] op = "Given" -> 1
      [] op = "UponReceiving" -> 2
      [] op \in {"WithRequest", "WithCompleteRequest"} -> 3
      [] op \in {"WillRespondWith", "WithCompleteResponse"} -> 4
      [] op = "ExecuteTest" -> 5

C3_CommittedHasDescription ==
    \A k \in 1..Len(run.loaded) : run.loaded[k].description # ""

C5_EmptyContract ==
    (last.op = "ExecuteTest" /\ Len(mockserver) = 0) =>
        /\ run.phase \in {"Failed", "TornDown"}
        /\ run.result = {EmptyContractError}
        /\ run.invoked = 0
        /\ ~run.listener
        /\ run.phase = "TornDown" => run.returned = {EmptyContractError}

\* ExecuteTest was the first call on the freshly constructed provider
C5_Witness ==
    /\ last.op = "ExecuteTest"
    /\ calls = 1
    /\ run.phase = "TornDown"
    /\ run.returned = {EmptyContractError}

\* C6: no two described interactions of the mock server have the same
\* description and the same provider-state list.
C6_NoDuplicateInteractions ==
    \A j, k \in 1..Len(mockserver) :
        (j # k /\ interactions[mockserver[j]].interaction.description # "") =>
            ~ /\ interactions[mockserver[j]].interaction.description
                    = interactions[mockserver[k]].interaction.description
              /\ interactions[mockserver[j]].interaction.states
                    = interactions[mockserver[k]].interaction.states

\* C7: on a V2 interaction JSONBody with a body holding a V3-only rule panics
\* with UnsupportedForSpecVersionError and leaves the interaction as it was when
\* JSONBody was called; the step the builder ran in ends with that error and the
\* interaction as it was at that call.
C7_JSONBodyValidatesFirst ==
    /\ \A i \in 1..Len(interactions), b \in JSONBodies :
          (interactions[i].specificationVersion = V2 /\ b.rules \cap V3OnlyRules # {}) =>
              /\ RequestBuilder_JSONBody(interactions[i], b).err
                    = UnsupportedForSpecVersionError
              /\ RequestBuilder_JSONBody(interactions[i], b).it = interactions[i]
              /\ ResponseBuilder_JSONBody(interactions[i], b).err
                    = UnsupportedForSpecVersionError
              /\ ResponseBuilder_JSONBody(interactions[i], b).it = interactions[i]
    /\ last.err = UnsupportedForSpecVersionError =>
          /\ last.op \in {"WithRequest", "WillRespondWith"}
          /\ interactions[last.i] = last.atPanic

\* a request step whose second builder panicked after the first had written a
\* legal JSON body
C7_Witness ==
    /\ last.op = "WithRequest"
    /\ last.err = UnsupportedForSpecVersionError
    /\ interactions[last.i].interaction.request.body.kind = "json"
    /\ interactions[last.i].interaction.request.body.rules = {"Like"}

\* C8: BodyMatch enforces the version check of JSONBody: no V2 interaction
\* has a request or response body with a V3-only rule.
C8_BodyMatchChecksVersion ==
    \A i \in 1..Len(interactions) :
        interactions[i].specificationVersion = V2 =>
            /\ interactions[i].interaction.request.body.rules \cap V3OnlyRules = {}
            /\ interactions[i].interaction.response.body.rules \cap V3OnlyRules = {}

\* C9: Given appends exactly one provider state, with the given name and an
\* empty parameter mapping, to the end of the interaction's state list, and
\* changes nothing else of the interaction.
C9_GivenAppends ==
    [][\A i \in 1..Len(interactions) :
         (StepOn(i) /\ last'.op = "Given") =>
            /\ last'.err = NoError
            /\ interactions'[i] =
                  [interactions[i] EXCEPT !.interaction.states =
                      Append(@, [name |-> last'.arg, params |-> <<>>])]
            /\ Unconfigured \in handles'[i].held]_vars

\* two Given calls with different names, before any other step
C9_Witness ==
    \E i \in 1..Len(interactions) :
        /\ last.op = "Given"
        /\ last.i = i
        /\ Len(interactions[i].interaction.states) = 2
        /\ interactions[i].interaction.states[1].name # last.arg
        /\ interactions[i].interaction.states[2].name = last.arg
        /\ interactions[i].interaction.description = ""

\* C10 (as claimed): a run that invoked the exercise function returns nil
\* exactly when the exercise function returned nil and the verification
\* reported no mismatch.
C10_NilIffExerciseAndVerificationPass ==
    (run.phase = "TornDown" /\ run.invoked = 1) =>
        (run.returned = {} <=> (run.exerciseErr = NoError /\ run.mismatches = {}))

\* C10 (amended): a run that invoked the exercise function returns nil
\* exactly when the exercise function returned nil, the verification reported
\* no mismatch and the contract was persisted.
C10_NilIffFullSuccess ==
    (run.phase = "TornDown" /\ run.invoked = 1) =>
        (run.returned = {} <=>
            (run.exerciseErr = NoError /\ run.mismatches = {} /\ run.persisted = "yes"))

\* a fully successful run started from the handle of a completed interaction
C10_Witness ==
    /\ run.phase = "TornDown"
    /\ run.via # 0
    /\ run.invoked = 1
    /\ run.persisted = "yes"
    /\ run.returned = {}

\* C11: in a run that reached Listening the exercise function is invoked exactly
\* once, whatever it returns (no retry); in a run where loading or the start of
\* the transport failed it is not invoked.
C11_ExerciseInvokedOnce ==
    /\ (run.phase \in {"Listening", "Exercised", "Verified"}) => run.invoked = 1
    /\ (run.phase \in {"Failed", "TornDown"}) =>
          IF run.result \cap {EmptyContractError, TransportStartError} # {}
          THEN run.invoked = 0 /\ run.exerciseErr = NoError
          ELSE run.invoked = 1
    /\ run.phase = "Configured" => run.invoked = 0

\* a run whose exercise function failed has ended, with the function invoked once
C11_Witness ==
    /\ run.phase = "TornDown"
    /\ run.exerciseErr = ExerciseError
    /\ ExerciseError \in run.returned
    /\ run.invoked = 1

\* C12: every run that started the listener eventually reaches TornDown with
\* the listener stopped, whether it ended Verified or Failed and whatever the
\* exercise function returned.
C12_ListenerEventuallyTornDown ==
    run.listener ~> (run.phase = "TornDown" /\ ~run.listener)

\* a torn-down run that had started the listener and ended Failed on the error
\* of the exercise function
C12_Witness ==
    /\ run.phase = "TornDown"
    /\ ~run.listener
    /\ Len(run.loaded) > 0
    /\ run.invoked = 1
    /\ run.returned = {ExerciseError}

\* C13: once ExecuteTest has started on the provider, no facade call adds an
\* interaction to the mock server or changes one of its interactions.
C13_ReadOnlyAfterRunBegins ==
    [][run.phase # "Configured" =>
          (mockserver' = mockserver /\ interactions' = interactions)]_vars

\* the builder methods that write the body
BodyWriters == {"JSONBody", "BinaryBody", "MultipartBody", "Body", "BodyMatch"}

\* C14: WithRequestPathMatcher records method and path and then applies its
\* builders once each, first argument first, to the same interaction;
\* WillRespondWith records the status and then applies its builders likewise.
\* The interaction after the step is the one the first builder and then the
\* second leave (up to a panic, which keeps what was recorded before it), so
\* of two builders that write the body the later argument's body stays.
C14_BuildersInArgumentOrder ==
    [][\A i \in 1..Len(interactions) : StepOn(i) =>
         /\ last'.op = "WithRequest" =>
               LET a  == last'.step
                   r0 == [interactions[i] EXCEPT !.interaction.request.method = a.method,
                                                 !.interaction.request.path = a.path]
                   r1 == IF Len(a.builders) >= 1
                         THEN V2RequestBuilder(r0, a.builders[1]) ELSE Done(r0)
                   r2 == IF Len(a.builders) >= 2 /\ r1.err = NoError
                         THEN V2RequestBuilder(r1.it, a.builders[2]) ELSE r1
               IN /\ Len(a.builders) <= 2
                  /\ interactions'[i] = r2.it
                  /\ last'.err = r2.err
                  /\ interactions'[i].interaction.request.method = a.method
                  /\ interactions'[i].interaction.request.path = a.path
                  /\ (/\ Len(a.builders) = 2
                      /\ last'.err = NoError
                      /\ {a.builders[1].m, a.builders[2].m} \subseteq BodyWriters) =>
                        interactions'[i].interaction.request.body
                           = V2RequestBuilder(r0, a.builders[2]).it.interaction.request.body
         /\ last'.op = "WillRespondWith" =>
               LET a  == last'.step
                   r0 == [interactions[i] EXCEPT !.interaction.response.status = a.status]
                   r1 == IF Len(a.builders) >= 1
                         THEN V2ResponseBuilder(r0, a.builders[1]) ELSE Done(r0)
                   r2 == IF Len(a.builders) >= 2 /\ r1.err = NoError
                         THEN V2ResponseBuilder(r1.it, a.builders[2]) ELSE r1
               IN /\ Len(a.builders) <= 2
                  /\ interactions'[i] = r2.it
                  /\ last'.err = r2.err
                  /\ interactions'[i].interaction.response.status = a.status
                  /\ (/\ Len(a.builders) = 2
                      /\ last'.err = NoError
                      /\ {a.builders[1].m, a.builders[2].m} \subseteq BodyWriters) =>
                        interactions'[i].interaction.response.body
                           = V2ResponseBuilder(r0, a.builders[2]).it.interaction.response.body]_vars

\* WillRespondWith(200, Body, JSONBody) after WithRequest(JSONBody, Body): the
\* response has the JSON body, the request the raw one
C14_Witness ==
    /\ last.op = "WillRespondWith"
    /\ last.err = NoError
    /\ Len(last.step.builders) = 2
    /\ interactions[last.i].interaction.response.status = 200
    /\ interactions[last.i].interaction.response.body.kind = "json"
    /\ interactions[last.i].interaction.request.body.kind = "raw"

\* C15: WithRequest(method, path, builders...) is WithRequestPathMatcher(method,
\* String(path), builders...): from the same state and with the same arguments
\* the two leave the same interaction, the same handles and the same outcome,
\* and the path recorded is the plain string as an exact-value matcher.
C15_WithRequestIsStringPathMatcher ==
    [][\A i \in 1..Len(interactions) :
         (StepOn(i) /\ last'.op = "WithRequest") =>
            \A m \in Methods, p \in Paths, bs \in FlowRequestBuilders :
               /\ WithRequest(i, m, p, bs) <=> WithRequestPathMatcher(i, m, String(p), bs)
               /\ WithRequest(i, m, p, bs) =>
                     /\ interactions'[i].interaction.request.method = m
                     /\ interactions'[i].interaction.request.path
                           = [matcher |-> "String", value |-> p, pattern |-> ""]
                     /\ last'.err = NoError =>
                           /\ handles'[i].latest = WithRequestHandle
                           /\ WithRequestHandle \in handles'[i].held]_vars

\* a request step with a plain path and a builder has returned its handle
C15_Witness ==
    /\ last.op = "WithRequest"
    /\ last.err = NoError
    /\ last.step.path = String("/foobar")
    /\ Len(last.step.builders) = 1
    /\ handles[last.i].latest = WithRequestHandle
    /\ interactions[last.i].interaction.request.path.matcher = "String"
    /\ interactions[last.i].interaction.request.body.kind = "json"

C17_StepsStayOnTheirInteraction ==
    /\ [](/\ Len(handles) = Len(interactions)
          /\ \A j, k \in 1..Len(mockserver) : j # k => mockserver[j] # mockserver[k])
    /\ [][/\ last'.op = "AddInteraction" /\ calls' = calls + 1 =>
               /\ Len(interactions') = Len(interactions) + 1
               /\ last'.i = Len(interactions')
               /\ \A j \in 1..Len(interactions) :
                     interactions'[j] = interactions[j] /\ handles'[j] = handles[j]
               /\ mockserver' = Append(mockserver, last'.i)
          /\ \A i \in 1..Len(interactions) : StepOn(i) =>
               /\ Len(interactions') = Len(interactions)
               /\ mockserver' = mockserver
               /\ provider' = provider
               /\ \A j \in 1..Len(interactions) : j # i =>
                     interactions'[j] = interactions[j] /\ handles'[j] = handles[j]
               /\ handles[i].held \subseteq handles'[i].held
               /\ (last'.err = NoError /\ last'.op # "ExecuteTest") =>
                     handles'[i].latest \in handles'[i].held]_vars

\* steps interleaved on two interactions: the second is taken to its complete
\* request while the first, described before, is as its own steps left it
C17_Witness ==
    /\ Len(interactions) = 2
    /\ last.op = "WithCompleteRequest"
    /\ last.i = 2
    /\ interactions[1].interaction.description = "A request to do a foo"
    /\ interactions[1].interaction.request.method = ""
    /\ interactions[2].interaction.request.method = "POST"
    /\ interactions[2].interaction.description = ""

\* C18: ExecuteTest called on the handle of a completed interaction is the
\* provider's ExecuteTest: the run it starts loads every interaction registered
\* on the provider's mock server, in order, not the handle's interaction alone;
\* it changes no interaction; and what it returns is the result of the
\* provider's run, as for a run started on the provider itself.
C18_HandleRunsProviderExecuteTest ==
    /\ [](/\ (last.op = "ExecuteTest" /\ Len(mockserver) > 0) =>
               /\ run.via = last.i
               /\ Len(run.loaded) = Len(mockserver)
               /\ \A k \in 1..Len(mockserver) :
                     run.loaded[k] = interactions[mockserver[k]].interaction
          /\ run.phase = "TornDown" => run.returned = run.result)
    /\ [][\A i \in 1..Len(interactions), startOk \in BOOLEAN :
            ExecuteTest(i, startOk) =>
               /\ httpMockProvider_ExecuteTest(i, startOk)
               /\ interactions' = interactions
               /\ mockserver' = mockserver
               /\ run'.phase = (IF startOk THEN "Listening" ELSE "Failed")]_vars

\* a run started from the handle of the second of two interactions has loaded
\* both and has returned the verification failure of the provider's run
C18_Witness ==
    /\ run.phase = "TornDown"
    /\ run.via = 2
    /\ Len(run.loaded) = 2
    /\ run.loaded[1].response.status = 0
    /\ run.loaded[2].response.status = 200
    /\ run.returned = {VerificationError}

\* C19: NewV2Pact returns a provider exactly when configure succeeded, and nil
\* with the error otherwise; the provider has specification version V2, every
\* interaction created through it has version V2 from AddInteraction on, and no
\* step changes the provider or the version of an interaction.
C19_V2FromCreation ==
    /\ [](/\ provider.ok <=> provider.err = NoError
          /\ provider.ok => provider.specificationVersion = V2
          /\ ~provider.ok => (interactions = <<>> /\ mockserver = <<>> /\ calls = 0)
          /\ \A i \in 1..Len(interactions) : interactions[i].specificationVersion = V2)
    /\ [][/\ provider' = provider
          /\ \A i \in 1..Len(interactions) :
                interactions'[i].specificationVersion
                   = interactions[i].specificationVersion]_vars

\* a V2 interaction that has been through Given, a request step and a response
\* step whose JSON body was refused for its V3-only rule
C19_Witness ==
    /\ provider.ok
    /\ last.op = "WillRespondWith"
    /\ last.err = UnsupportedForSpecVersionError
    /\ interactions[last.i].specificationVersion = V2
    /\ Len(interactions[last.i].interaction.states) = 1
    /\ interactions[last.i].interaction.request.body.kind = "json"

====
